---------------------------- MODULE Spec2Model ----------------------------
(***************************************************************************)
(* A model of the HID bus layer (hidbus.c) on top of the USB transport     *)
(* (usbhid.c): the attach and detach sequences of both devices, the        *)
(* client's calls into the Bus Node, and the interrupt read pump           *)
(* (uhid_intr_read_callback) driven by the USB transfer it is set up on.   *)
(*                                                                         *)
(* The newbus thread (attach, detach) moves through the steps of           *)
(* uhid_attach, hidbus_attach, uhid_detach and hidbus_detach, one action   *)
(* per step; the client driver and the USB completion context run          *)
(* concurrently with it and are serialised by the hidbus lock.             *)
(***************************************************************************)
EXTENDS Integers, Sequences, FiniteSets, TLC

(* ------------------------------------------------------------------ *)
(* Program constants and the bounds of the model                       *)
(* ------------------------------------------------------------------ *)

\* #define UHID_BSIZE 1024 : the cap of sc_isize and the transfer's bufsize
UHID_BSIZE == 1024

\* the number of completions (frames and faults) the device produces
MaxCompletions == 3

\* what the attached device is (uaa->info): the three devices with a static
\* report descriptor, a Wacom device of another product, a generic HID device
DeviceKinds == {"graphire", "graphire3_4x5", "xb360gp", "wacom_other", "generic"}

\* input report sizes and ids hid_report_size may compute from a descriptor:
\* no input report, 8 bytes without and with a report id, more than UHID_BSIZE
ReportGeometries ==
    {[size |-> 0, id |-> 0], [size |-> 8, id |-> 0], [size |-> 8, id |-> 2],
     [size |-> UHID_BSIZE + 6, id |-> 2]}

\* actual lengths a completed transfer may report (usbd_xfer_status)
ActLens == {0, 3, 8, 9}

\* the handlers a client driver may bind
Handlers == {"h1", "h2"}

VARIABLES
    pc,          \* the newbus thread's position in attach / detach
    dev_state,   \* newbus state of the usbhid device and of its hidbus child
    uhid,        \* struct uhid_softc
    hidbus,      \* struct hidbus_softc
    xfer,        \* the interrupt read transfer sc_xfer[UHID_INTR_DT_RD]
    client,      \* the hidbus child (Client Driver): "none", "present", "attached"
    fault,       \* "none", or the kernel fault that stopped the system
    completions, \* history: number of completions the device has produced
    delivered,   \* history: the calls of the client's bound handler
    truncated,   \* history: a delivery was cut to sc_isize
    stalls,      \* history: number of usbd_xfer_set_stall calls
    heap,        \* history: malloc/free of the report descriptor and sc_ibuf,
                 \* mtx_init/mtx_destroy of the lock, HID_INTR_SETUP/_UNSETUP
    stopped,     \* history: hid_stop has returned and no hid_start followed
    bind,        \* history: the handler the last hid_set_intr call passed, and
                 \* whether a call ever came while another handler was bound
    client_ever, \* history: the Client Driver has attached since hidbus_attach
    call         \* the last synchronous Bus Node operation: what was called,
                 \* what it passed down, and what it returned

vars == <<pc, dev_state, uhid, hidbus, xfer, client, fault, completions,
          delivered, truncated, stalls, heap, stopped, bind, client_ever, call>>

(* ------------------------------------------------------------------ *)
(* Initial state: the device was probed, its softc is zeroed           *)
(* ------------------------------------------------------------------ *)

\* struct uhid_softc, zero-filled by newbus before uhid_attach
uhid_softc0 ==
    [sc_child        |-> "null",
     sc_intr_handler |-> "null",
     sc_intr_mtx     |-> "null",
     sc_xfer         |-> "null",
     sc_repdesc_ptr  |-> "null",
     sc_ibuf         |-> "null",
     sc_isize        |-> 0,
     sc_iid          |-> 0,
     UHID_FLAG_STATIC_DESC |-> FALSE]

\* struct hidbus_softc, zero-filled by newbus before hidbus_attach
hidbus_softc0 ==
    [lock  |-> "uninit",
     child |-> "null",
     intr  |-> "null"]

\* a usb_xfer that is not set up or not started; outstanding is history: the
\* submissions handed to the hardware that it has neither completed nor had
\* cancelled
xfer0 ==
    [started |-> FALSE,
     state   |-> "idle",
     error   |-> "none",
     actlen  |-> 0,
     framelen |-> 0,
     outstanding |-> 0]

\* nothing allocated, initialised or set up yet
heap0 == [desc_allocs |-> 0, desc_frees |-> 0, static_frees |-> 0,
          ibuf_size |-> 0, ibuf_frees |-> 0,
          mtx_inits |-> 0, mtx_destroys |-> 0,
          intr_setups |-> 0, intr_unsetups |-> 0]

bind0 == [intr |-> "null", replaced |-> FALSE]

\* no synchronous operation has been called
call0 == [op |-> "none", args |-> <<>>, transport |-> <<>>, usb |-> <<>>,
          ret |-> "0"]

Init ==
    /\ pc = "ua_desc"
    /\ dev_state = [usbhid |-> "attaching", hidbus |-> "none"]
    /\ uhid = uhid_softc0
    /\ hidbus = hidbus_softc0
    /\ xfer = xfer0
    /\ client = "none"
    /\ fault = "none"
    /\ completions = 0
    /\ delivered = <<>>
    /\ truncated = FALSE
    /\ stalls = 0
    /\ heap = heap0
    /\ stopped = FALSE
    /\ bind = bind0
    /\ client_ever = FALSE
    /\ call = call0

pump_vars == <<xfer, completions, delivered, truncated, stalls, stopped>>

(* ------------------------------------------------------------------ *)
(* uhid_attach and hidbus_attach                                       *)
(* ------------------------------------------------------------------ *)

\* what uhid_attach binds statically for a device: "static" stands for the
\* address of the device's own array (uhid_graphire_report_descr,
\* uhid_graphire3_4x5_report_descr, uhid_xb360gp_report_descr), "null" for none
StaticDescOf(kind) ==
    CASE kind = "graphire"      -> "static"
      [] kind = "graphire3_4x5" -> "static"
      [] kind = "xb360gp"       -> "static"
      [] OTHER                  -> "null"

\* uhid_attach, the report descriptor: bound statically for the three quirk
\* devices, else fetched with usbd_req_get_hid_desc (which may fail: goto detach)
uhid_attach_desc(kind, got) ==
    /\ fault = "none"
    /\ pc = "ua_desc"
    /\ IF StaticDescOf(kind) # "null"
       THEN /\ uhid' = [uhid EXCEPT !.sc_repdesc_ptr = StaticDescOf(kind),
                                    !.UHID_FLAG_STATIC_DESC = TRUE]
            /\ heap' = heap
            /\ pc' = "ua_sizes"
       ELSE IF got
       THEN /\ uhid' = [uhid EXCEPT !.sc_repdesc_ptr = "malloc"]
            /\ heap' = [heap EXCEPT !.desc_allocs = @ + 1]
            /\ pc' = "ua_sizes"
       ELSE /\ uhid' = uhid
            /\ heap' = heap
            /\ pc' = "ud_generic_detach"
    /\ UNCHANGED <<dev_state, hidbus, client, fault, bind, client_ever, call, pump_vars>>

\* the report size taken as hid_report_size computed it
CapSize_none(size) == size

\* the cap of a report size to the buffer size
CapSize(size) == IF size > UHID_BSIZE THEN UHID_BSIZE ELSE size

\* uhid_attach, the report geometry and the receive buffer
uhid_attach_sizes(size, iid) ==
    /\ fault = "none"
    /\ pc = "ua_sizes"
    /\ uhid' = [uhid EXCEPT !.sc_isize = CapSize(size),
                            !.sc_iid = iid,
                            !.sc_ibuf = "malloc"]
    /\ heap' = [heap EXCEPT !.ibuf_size = CapSize(size)]
    /\ pc' = "ua_add_child"
    /\ UNCHANGED <<dev_state, hidbus, client, fault, bind, client_ever, call, pump_vars>>

\* uhid_attach, device_add_child(dev, "hidbus", -1): NULL is goto detach
uhid_attach_add_child(added) ==
    /\ fault = "none"
    /\ pc = "ua_add_child"
    /\ IF added
       THEN /\ uhid' = [uhid EXCEPT !.sc_child = "hidbus"]
            /\ dev_state' = [dev_state EXCEPT !.hidbus = "present"]
            /\ pc' = "ha_add_child"
       ELSE /\ uhid' = uhid
            /\ dev_state' = dev_state
            /\ pc' = "ud_generic_detach"
    /\ UNCHANGED <<hidbus, client, fault, heap, bind, client_ever, call, pump_vars>>

\* hidbus_attach with mtx_init in front of device_add_child
hidbus_attach_add_child_lock_first(added) ==
    /\ fault = "none"
    /\ pc = "ha_add_child"
    /\ hidbus' = [hidbus EXCEPT !.lock = "free"]
    /\ heap' = [heap EXCEPT !.mtx_inits = @ + 1]
    /\ IF added
       THEN /\ client' = "present"
            /\ dev_state' = dev_state
            /\ pc' = "ha_intr_setup"
       ELSE /\ client' = client
            /\ dev_state' = [dev_state EXCEPT !.usbhid = "attached"]
            /\ pc' = "attached"
    /\ UNCHANGED <<uhid, fault, bind, client_ever, call, pump_vars>>

\* hidbus_attach, device_add_child(dev, NULL, -1): NULL returns ENXIO, and
\* uhid_attach, which only logs bus_generic_attach's error, returns 0
hidbus_attach_add_child(added) ==
    /\ fault = "none"
    /\ pc = "ha_add_child"
    /\ IF added
       THEN /\ client' = "present"
            /\ dev_state' = dev_state
            /\ pc' = "ha_intr_setup"
       ELSE /\ client' = client
            /\ dev_state' = [dev_state EXCEPT !.usbhid = "attached"]
            /\ pc' = "attached"
    /\ UNCHANGED <<uhid, hidbus, fault, heap, bind, client_ever, call, pump_vars>>

\* usbhid_intr_setup: the handler, its context and the mutex are stored and
\* the transfer is set up on that mutex; a failed setup is only logged
usbhid_intr_setup(mtx, intr, setup_ok) ==
    uhid' = [uhid EXCEPT !.sc_intr_handler = intr,
                         !.sc_intr_mtx = mtx,
                         !.sc_xfer = IF setup_ok THEN "setup" ELSE "null"]

\* hidbus_attach handing HID_INTR_SETUP no mutex: the transfer is set up on
\* another one (Giant) and its callback runs whoever holds sc->lock
hidbus_attach_intr_setup_no_mtx(setup_ok) ==
    /\ fault = "none"
    /\ pc = "ha_intr_setup"
    /\ hidbus' = [hidbus EXCEPT !.lock = "free"]
    /\ usbhid_intr_setup("null", "hidbus_intr", setup_ok)
    /\ heap' = [heap EXCEPT !.mtx_inits = @ + 1, !.intr_setups = @ + 1]
    /\ pc' = "ha_generic_attach"
    /\ UNCHANGED <<dev_state, client, fault, bind, client_ever, call, pump_vars>>

\* hidbus_attach, mtx_init and HID_INTR_SETUP(parent, &sc->lock, hidbus_intr, sc)
hidbus_attach_intr_setup(setup_ok) ==
    /\ fault = "none"
    /\ pc = "ha_intr_setup"
    /\ hidbus' = [hidbus EXCEPT !.lock = "free"]
    /\ usbhid_intr_setup("hidbus_lock", "hidbus_intr", setup_ok)
    /\ heap' = [heap EXCEPT !.mtx_inits = @ + 1, !.intr_setups = @ + 1]
    /\ pc' = "ha_generic_attach"
    /\ UNCHANGED <<dev_state, client, fault, bind, client_ever, call, pump_vars>>

\* hidbus_attach, bus_generic_attach(dev): the client attaches or fails to,
\* hidbus_attach returns 0 either way and so does uhid_attach
hidbus_attach_generic_attach(client_ok) ==
    /\ fault = "none"
    /\ pc = "ha_generic_attach"
    /\ client' = IF client_ok THEN "attached" ELSE "present"
    /\ client_ever' = (client_ever \/ client_ok)
    /\ dev_state' = [usbhid |-> "attached", hidbus |-> "attached"]
    /\ pc' = "attached"
    /\ UNCHANGED <<uhid, hidbus, fault, heap, bind, call, pump_vars>>

Attach ==
    \/ \E kind \in DeviceKinds, got \in BOOLEAN : uhid_attach_desc(kind, got)
    \/ \E g \in ReportGeometries : uhid_attach_sizes(g.size, g.id)
    \/ \E added \in BOOLEAN : uhid_attach_add_child(added)
    \/ \E added \in BOOLEAN : hidbus_attach_add_child(added)
    \/ \E setup_ok \in BOOLEAN : hidbus_attach_intr_setup(setup_ok)
    \/ \E client_ok \in BOOLEAN : hidbus_attach_generic_attach(client_ok)

(* ------------------------------------------------------------------ *)
(* The USB transfer (usbd_transfer_start, _stop, _submit, completion)  *)
(* ------------------------------------------------------------------ *)

\* usbd_transfer_start queueing the USB_ST_SETUP call whatever the transfer
\* is doing
usbd_transfer_start_rearms(x) ==
    IF uhid.sc_xfer = "null" THEN x
    ELSE [x EXCEPT !.started = TRUE, !.state = "cb_setup"]

\* usbd_transfer_start(sc->sc_xfer[UHID_INTR_DT_RD]): nothing for a transfer
\* that was not set up; else the transfer is marked started and, unless it
\* is transferring, its callback is queued in state USB_ST_SETUP
usbd_transfer_start(x) ==
    IF uhid.sc_xfer = "null" THEN x
    ELSE [x EXCEPT !.started = TRUE,
                   !.state = IF @ = "idle" THEN "cb_setup" ELSE @]

\* usbd_transfer_stop(sc->sc_xfer[UHID_INTR_DT_RD]): the transfer is no longer
\* started; a transfer in flight, or one whose completion is still queued,
\* completes with USB_ERR_CANCELLED; a queued USB_ST_SETUP call is dropped
usbd_transfer_stop(x) ==
    IF uhid.sc_xfer = "null" THEN x
    ELSE [x EXCEPT !.started = FALSE,
                   !.state = IF @ \in {"inflight", "cb_done"} THEN "cb_done" ELSE "idle",
                   !.error = IF x.state \in {"inflight", "cb_done"}
                             THEN "USB_ERR_CANCELLED" ELSE "none",
                   !.outstanding = IF x.state = "inflight" THEN @ - 1 ELSE @]

\* re_submit without its usbd_xfer_set_frame_len
re_submit_keeps_len(x) ==
    [x EXCEPT !.state = "inflight", !.error = "none", !.actlen = 0,
              !.outstanding = @ + 1]

\* usbd_xfer_set_frame_len(xfer, 0, sc->sc_isize); usbd_transfer_submit(xfer)
re_submit(x) ==
    [x EXCEPT !.state = "inflight", !.error = "none", !.actlen = 0,
              !.framelen = uhid.sc_isize, !.outstanding = @ + 1]

\* the device completes the submitted transfer with actlen bytes
hw_transferred(actlen) ==
    /\ fault = "none"
    /\ xfer.state = "inflight"
    /\ completions < MaxCompletions
    /\ completions' = completions + 1
    /\ xfer' = [xfer EXCEPT !.state = "cb_done", !.error = "none",
                            !.actlen = actlen, !.outstanding = @ - 1]
    /\ UNCHANGED <<pc, dev_state, uhid, hidbus, client, fault,
                   delivered, truncated, stalls, heap, stopped, bind, client_ever, call>>

\* the submitted transfer fails with an error that is not a cancellation
hw_error ==
    /\ fault = "none"
    /\ xfer.state = "inflight"
    /\ completions < MaxCompletions
    /\ completions' = completions + 1
    /\ xfer' = [xfer EXCEPT !.state = "cb_done", !.error = "USB_ERR_STALLED",
                            !.actlen = 0, !.outstanding = @ - 1]
    /\ UNCHANGED <<pc, dev_state, uhid, hidbus, client, fault,
                   delivered, truncated, stalls, heap, stopped, bind, client_ever, call>>

(* ------------------------------------------------------------------ *)
(* The interrupt read callback and the Bus Node routing function       *)
(* ------------------------------------------------------------------ *)

\* USB_GET_STATE(xfer) as the callback sees it
USB_GET_STATE ==
    IF xfer.state = "cb_setup" THEN "USB_ST_SETUP"
    ELSE IF xfer.error = "none" THEN "USB_ST_TRANSFERRED"
    ELSE "USB_ST_ERROR"

\* Accepts without the report id: only full-size frames pass
Accepts_ignores_id(actlen, isize, iid) ==
    actlen >= isize

\* the test that lets a transferred frame through to the handler
Accepts(actlen, isize, iid) ==
    (actlen >= isize) \/ ((actlen > 0) /\ (iid # 0))

\* Truncate without the limit: the length is passed on as it came
Truncate_none(actlen, isize) == actlen

\* "limit report length to the maximum"
Truncate(actlen, isize) ==
    IF actlen > isize THEN isize ELSE actlen

\* Recovers without the test of USB_ERR_CANCELLED: every error resubmits
Recovers_always(error) == TRUE

\* Recovers with the test inverted: no stall is ever cleared
Recovers_never(error) == error = "USB_ERR_CANCELLED"

\* the error branch's test: anything but a cancellation is recovered from
Recovers(error) == error # "USB_ERR_CANCELLED"

\* hidbus_intr calling the handler twice for one report
hidbus_intr_twice(outstanding, actlen, len) ==
    IF hidbus.intr = "null"
    THEN /\ fault' = "null_intr_call"
         /\ UNCHANGED <<delivered, truncated>>
    ELSE /\ fault' = fault
         /\ truncated' = (truncated \/ actlen > len)
         /\ delivered' = delivered \o
                << [seq |-> completions, copied |-> len, len |-> len,
                    outstanding |-> outstanding],
                   [seq |-> completions, copied |-> len, len |-> len,
                    outstanding |-> outstanding] >>

\* hidbus_intr(context, buf, len): sc->intr(sc->child, buf, len), with no
\* test of sc->intr; a call through the NULL pointer is a kernel fault.
\* For the history, outstanding is the number of submissions of the read
\* transfer outstanding while the handler runs, actlen the transfer's length
hidbus_intr(outstanding, actlen, len) ==
    IF hidbus.intr = "null"
    THEN /\ fault' = "null_intr_call"
         /\ UNCHANGED <<delivered, truncated>>
    ELSE /\ fault' = fault
         /\ truncated' = (truncated \/ actlen > len)
         /\ delivered' = Append(delivered,
                [seq |-> completions, copied |-> len, len |-> len,
                 outstanding |-> outstanding])

\* case USB_ST_TRANSFERRED with the resubmission moved in front of the
\* handler call
cb_transferred_rearm_first ==
    /\ USB_GET_STATE = "USB_ST_TRANSFERRED"
    /\ LET x == re_submit(xfer) IN
         /\ IF Accepts(xfer.actlen, uhid.sc_isize, uhid.sc_iid)
            THEN hidbus_intr(x.outstanding, xfer.actlen,
                             Truncate(xfer.actlen, uhid.sc_isize))
            ELSE UNCHANGED <<fault, delivered, truncated>>
         /\ xfer' = x
    /\ stalls' = stalls

\* case USB_ST_TRANSFERRED, falling through to re_submit: the handler is
\* called with the transfer as it completed, the resubmission comes after
cb_transferred ==
    /\ USB_GET_STATE = "USB_ST_TRANSFERRED"
    /\ LET x == xfer IN
         /\ IF Accepts(x.actlen, uhid.sc_isize, uhid.sc_iid)
            THEN hidbus_intr(x.outstanding, x.actlen,
                             Truncate(x.actlen, uhid.sc_isize))
            ELSE UNCHANGED <<fault, delivered, truncated>>
         /\ xfer' = IF fault' = "none" THEN re_submit(x) ELSE x
    /\ stalls' = stalls

\* case USB_ST_SETUP
cb_setup ==
    /\ USB_GET_STATE = "USB_ST_SETUP"
    /\ xfer' = re_submit(xfer)
    /\ UNCHANGED <<fault, delivered, truncated, stalls>>

\* the error branch with a retry limit: after two stalls it gives up
cb_error_gives_up ==
    /\ USB_GET_STATE = "USB_ST_ERROR"
    /\ IF Recovers(xfer.error) /\ stalls < 2
       THEN /\ stalls' = stalls + 1
            /\ xfer' = re_submit(xfer)
       ELSE /\ stalls' = stalls
            /\ xfer' = [xfer EXCEPT !.state = IF xfer.started /\ ~Recovers(xfer.error)
                                              THEN "cb_setup" ELSE "idle",
                                    !.error = "none", !.actlen = 0]
    /\ UNCHANGED <<fault, delivered, truncated>>

\* default (error): clear the stall and resubmit, unless cancelled; a
\* transfer started again after the cancellation gets its USB_ST_SETUP call
cb_error ==
    /\ USB_GET_STATE = "USB_ST_ERROR"
    /\ IF Recovers(xfer.error)
       THEN /\ stalls' = stalls + 1
            /\ xfer' = re_submit(xfer)
       ELSE /\ stalls' = stalls
            /\ xfer' = [xfer EXCEPT !.state = IF xfer.started THEN "cb_setup" ELSE "idle",
                                    !.error = "none", !.actlen = 0]
    /\ UNCHANGED <<fault, delivered, truncated>>

\* the mutex usbd_transfer_setup was given (sc->sc_intr_mtx) can be taken by
\* the completion context: the USB stack calls the callback with it held
xfer_mtx_free ==
    IF uhid.sc_intr_mtx = "hidbus_lock" THEN hidbus.lock = "free" ELSE TRUE

\* uhid_intr_read_callback, called by the USB stack with the transfer's
\* mutex held, which it takes before and drops after the call
uhid_intr_read_callback ==
    /\ fault = "none"
    /\ uhid.sc_xfer = "setup"
    /\ xfer.state \in {"cb_setup", "cb_done"}
    /\ xfer_mtx_free
    /\ (cb_transferred \/ cb_setup \/ cb_error)
    /\ UNCHANGED <<pc, dev_state, uhid, hidbus, client, completions,
                   heap, stopped, bind, client_ever, call>>

(* ------------------------------------------------------------------ *)
(* The Client Driver's calls                                           *)
(* ------------------------------------------------------------------ *)

\* mtx_lock(hid_get_lock(child))
client_lock ==
    /\ fault = "none"
    /\ client = "attached"
    /\ hidbus.lock \in {"free", "destroyed"}
    /\ IF hidbus.lock = "free"
       THEN /\ hidbus' = [hidbus EXCEPT !.lock = "client"]
            /\ fault' = fault
       ELSE /\ hidbus' = hidbus
            /\ fault' = "mtx_destroyed"
    /\ UNCHANGED <<pc, dev_state, uhid, client, heap, bind, client_ever, call, pump_vars>>

\* mtx_unlock(hid_get_lock(child))
client_unlock ==
    /\ fault = "none"
    /\ client = "attached"
    /\ hidbus.lock = "client"
    /\ hidbus' = [hidbus EXCEPT !.lock = "free"]
    /\ UNCHANGED <<pc, dev_state, uhid, client, fault, heap, bind, client_ever, call, pump_vars>>

\* hid_set_intr refusing to replace a bound handler
hid_set_intr_keeps_first(intr) ==
    /\ fault = "none"
    /\ client = "attached"
    /\ hidbus' = IF hidbus.intr = "null"
                 THEN [hidbus EXCEPT !.child = "child", !.intr = intr]
                 ELSE hidbus
    /\ bind' = [intr |-> intr,
                replaced |-> bind.replaced \/ hidbus.intr \notin {"null", intr}]
    /\ UNCHANGED <<pc, dev_state, uhid, client, fault, heap, client_ever, call,
                   pump_vars>>

\* hid_set_intr(child, intr): both fields are stored, whatever they held
hid_set_intr(intr) ==
    /\ fault = "none"
    /\ client = "attached"
    /\ hidbus' = [hidbus EXCEPT !.child = "child", !.intr = intr]
    /\ bind' = [intr |-> intr,
                replaced |-> bind.replaced \/ hidbus.intr \notin {"null", intr}]
    /\ UNCHANGED <<pc, dev_state, uhid, client, fault, heap, client_ever, call,
                   pump_vars>>

\* usbhid_intr_start and usbhid_intr_stop without their mtx_assert
mtx_owned_always == TRUE

\* mtx_assert(sc->sc_intr_mtx, MA_OWNED) in the caller's context
mtx_owned == hidbus.lock = "client"

\* hid_start(child) -> usbhid_intr_start
hid_start ==
    /\ fault = "none"
    /\ client = "attached"
    /\ IF mtx_owned
       THEN /\ xfer' = usbd_transfer_start(xfer)
            /\ stopped' = FALSE
            /\ fault' = fault
       ELSE /\ fault' = "mtx_assert"
            /\ UNCHANGED <<xfer, stopped>>
    /\ UNCHANGED <<pc, dev_state, uhid, hidbus, client, completions,
                   delivered, truncated, stalls, heap, bind, client_ever, call>>

\* hid_stop forwarding to HID_INTR_START instead of HID_INTR_STOP
hid_stop_calls_start ==
    /\ fault = "none"
    /\ client = "attached"
    /\ IF mtx_owned
       THEN /\ xfer' = usbd_transfer_start(xfer)
            /\ stopped' = TRUE
            /\ fault' = fault
       ELSE /\ fault' = "mtx_assert"
            /\ UNCHANGED <<xfer, stopped>>
    /\ UNCHANGED <<pc, dev_state, uhid, hidbus, client, completions,
                   delivered, truncated, stalls, heap, bind, client_ever, call>>

\* hid_stop returning 0 without a call of HID_INTR_STOP
hid_stop_no_op ==
    /\ fault = "none"
    /\ client = "attached"
    /\ stopped' = TRUE
    /\ UNCHANGED <<pc, dev_state, uhid, hidbus, client, fault, xfer, completions,
                   delivered, truncated, stalls, heap, bind, client_ever, call>>

\* hid_stop(child) -> usbhid_intr_stop
hid_stop ==
    /\ fault = "none"
    /\ client = "attached"
    /\ IF mtx_owned
       THEN /\ xfer' = usbd_transfer_stop(xfer)
            /\ stopped' = TRUE
            /\ fault' = fault
       ELSE /\ fault' = "mtx_assert"
            /\ UNCHANGED <<xfer, stopped>>
    /\ UNCHANGED <<pc, dev_state, uhid, hidbus, client, completions,
                   delivered, truncated, stalls, heap, bind, client_ever, call>>

(* ------------------------------------------------------------------ *)
(* The synchronous HID interface: hidbus.c on top of usbhid.c          *)
(* ------------------------------------------------------------------ *)

\* arguments a client may pass: buffers, lengths, report types, report ids,
\* idle durations (in milliseconds) and protocols
Bufs == {"buf"}
Lens == {0, 8}
ReportTypes == {"UHID_INPUT_REPORT", "UHID_FEATURE_REPORT"}
ReportIds == {0, 2}
Durations == {0, 5, 500}
Protocols == {0, 1}

\* what a USB control request (usbd_req_*) may end with
UsbErrors == {"USB_ERR_NORMAL_COMPLETION", "USB_ERR_TIMEOUT", "USB_ERR_STALLED"}

\* usb_errno answering ENOTSUP for a failed request
usb_errno_enotsup(err) ==
    IF err # "USB_ERR_NORMAL_COMPLETION" THEN "ENOTSUP" ELSE "0"

\* "if (err) err = ENXIO; return (err);"
usb_errno(err) ==
    IF err # "USB_ERR_NORMAL_COMPLETION" THEN "ENXIO" ELSE "0"

\* usbhid_get_report_desc: *buf = sc->sc_repdesc_ptr, no USB request
usbhid_get_report_desc(buf, len) ==
    [usb |-> <<>>, out |-> <<uhid.sc_repdesc_ptr>>, hw |-> "none", ret |-> "0"]

\* usbhid_get_input_report: not supported over USB
usbhid_get_input_report(buf, len) ==
    [usb |-> <<>>, out |-> <<>>, hw |-> "none", ret |-> "ENOTSUP"]

\* usbhid_set_output_report: not supported over USB
usbhid_set_output_report(buf, len) ==
    [usb |-> <<>>, out |-> <<>>, hw |-> "none", ret |-> "ENOTSUP"]

\* usbhid_get_report: usbd_req_get_report, which ends with err
usbhid_get_report(buf, len, type, id, err) ==
    [usb |-> << [req |-> "usbd_req_get_report", args |-> <<buf, len, type, id>>] >>,
     out |-> <<>>, hw |-> err, ret |-> usb_errno(err)]

\* usbhid_set_report: usbd_req_set_report, which ends with err
usbhid_set_report(buf, len, type, id, err) ==
    [usb |-> << [req |-> "usbd_req_set_report", args |-> <<buf, len, type, id>>] >>,
     out |-> <<>>, hw |-> err, ret |-> usb_errno(err)]

\* usbhid_set_idle: usbd_req_set_idle with the duration in units of 4 ms
usbhid_set_idle(duration, id, err) ==
    [usb |-> << [req |-> "usbd_req_set_idle",
                 args |-> <<(duration + 3) \div 4, id>>] >>,
     out |-> <<>>, hw |-> err, ret |-> usb_errno(err)]

\* usbhid_set_protocol: usbd_req_set_protocol, which ends with err
usbhid_set_protocol(protocol, err) ==
    [usb |-> << [req |-> "usbd_req_set_protocol", args |-> <<protocol>>] >>,
     out |-> <<>>, hw |-> err, ret |-> usb_errno(err)]

\* everything but the record of the last synchronous call
bus_vars == <<pc, dev_state, uhid, hidbus, xfer, client, fault, completions,
              delivered, truncated, stalls, heap, stopped, bind, client_ever>>

\* the record of a Bus Node operation op(args) that called the parent's
\* method with targs, got t from it and returned ret
hid_call(op, args, method, targs, t, ret) ==
    [op |-> op, args |-> args,
     transport |-> << [method |-> method, args |-> targs,
                       ret |-> t.ret, hw |-> t.hw, out |-> t.out] >>,
     usb |-> t.usb,
     ret |-> ret]

\* hid_get_report_descr(bus, data, len)
hid_get_report_descr(data, len) ==
    /\ fault = "none"
    /\ client = "attached"
    /\ LET t == usbhid_get_report_desc(data, len) IN
         call' = hid_call("hid_get_report_descr", <<data, len>>,
                          "hid_get_report_descr", <<data, len>>, t, t.ret)
    /\ UNCHANGED bus_vars

\* hid_get_input_report(bus, data, len)
hid_get_input_report(data, len) ==
    /\ fault = "none"
    /\ client = "attached"
    /\ LET t == usbhid_get_input_report(data, len) IN
         call' = hid_call("hid_get_input_report", <<data, len>>,
                          "hid_get_input_report", <<data, len>>, t, t.ret)
    /\ UNCHANGED bus_vars

\* hid_set_output_report(bus, data, len)
hid_set_output_report(data, len) ==
    /\ fault = "none"
    /\ client = "attached"
    /\ LET t == usbhid_set_output_report(data, len) IN
         call' = hid_call("hid_set_output_report", <<data, len>>,
                          "hid_set_output_report", <<data, len>>, t, t.ret)
    /\ UNCHANGED bus_vars

\* hid_get_report answering 0 whatever the transport returned
hid_get_report_drops_result(data, len, type, id, err) ==
    /\ fault = "none"
    /\ client = "attached"
    /\ LET t == usbhid_get_report(data, len, type, id, err) IN
         call' = hid_call("hid_get_report", <<data, len, type, id>>,
                          "hid_get_report", <<data, len, type, id>>, t, "0")
    /\ UNCHANGED bus_vars

\* hid_get_report(bus, data, len, type, id)
hid_get_report(data, len, type, id, err) ==
    /\ fault = "none"
    /\ client = "attached"
    /\ LET t == usbhid_get_report(data, len, type, id, err) IN
         call' = hid_call("hid_get_report", <<data, len, type, id>>,
                          "hid_get_report", <<data, len, type, id>>, t, t.ret)
    /\ UNCHANGED bus_vars

\* hid_set_report(bus, data, len, type, id)
hid_set_report(data, len, type, id, err) ==
    /\ fault = "none"
    /\ client = "attached"
    /\ LET t == usbhid_set_report(data, len, type, id, err) IN
         call' = hid_call("hid_set_report", <<data, len, type, id>>,
                          "hid_set_report", <<data, len, type, id>>, t, t.ret)
    /\ UNCHANGED bus_vars

\* hid_set_idle(bus, duration, id)
hid_set_idle(duration, id, err) ==
    /\ fault = "none"
    /\ client = "attached"
    /\ LET t == usbhid_set_idle(duration, id, err) IN
         call' = hid_call("hid_set_idle", <<duration, id>>,
                          "hid_set_idle", <<duration, id>>, t, t.ret)
    /\ UNCHANGED bus_vars

\* hid_set_protocol(bus, protocol)
hid_set_protocol(protocol, err) ==
    /\ fault = "none"
    /\ client = "attached"
    /\ LET t == usbhid_set_protocol(protocol, err) IN
         call' = hid_call("hid_set_protocol", <<protocol>>,
                          "hid_set_protocol", <<protocol>>, t, t.ret)
    /\ UNCHANGED bus_vars

HidInterface ==
    \/ \E data \in Bufs, len \in Lens : hid_get_report_descr(data, len)
    \/ \E data \in Bufs, len \in Lens : hid_get_input_report(data, len)
    \/ \E data \in Bufs, len \in Lens : hid_set_output_report(data, len)
    \/ \E data \in Bufs, len \in Lens, type \in ReportTypes, id \in ReportIds,
          err \in UsbErrors : hid_get_report(data, len, type, id, err)
    \/ \E data \in Bufs, len \in Lens, type \in ReportTypes, id \in ReportIds,
          err \in UsbErrors : hid_set_report(data, len, type, id, err)
    \/ \E duration \in Durations, id \in ReportIds, err \in UsbErrors :
          hid_set_idle(duration, id, err)
    \/ \E protocol \in Protocols, err \in UsbErrors :
          hid_set_protocol(protocol, err)

(* ------------------------------------------------------------------ *)
(* uhid_detach and hidbus_detach                                       *)
(* ------------------------------------------------------------------ *)

\* newbus detaches the attached usbhid device: uhid_detach is entered
device_detach ==
    /\ fault = "none"
    /\ pc = "attached"
    /\ pc' = "ud_generic_detach"
    /\ UNCHANGED <<dev_state, uhid, hidbus, client, fault, heap, bind, client_ever, call, pump_vars>>

\* uhid_detach: if (device_is_attached(dev)) bus_generic_detach(dev), which
\* runs hidbus_detach when the hidbus child is attached
uhid_detach_generic_detach ==
    /\ fault = "none"
    /\ pc = "ud_generic_detach"
    /\ pc' = IF dev_state.usbhid = "attached" /\ dev_state.hidbus = "attached"
             THEN "hd_generic_detach" ELSE "ud_delete_child"
    /\ UNCHANGED <<dev_state, uhid, hidbus, client, fault, heap, bind, client_ever, call, pump_vars>>

\* device_detach(child) of the Client Driver: its detach method succeeds
\* (never with the hidbus lock still held by the client) or returns an error
\* and leaves it attached
ClientDetaches(detached) == detached /\ hidbus.lock # "client"

\* hidbus_detach: bus_generic_detach(dev), its result not looked at
hidbus_detach_generic_detach(detached) ==
    /\ fault = "none"
    /\ pc = "hd_generic_detach"
    /\ client' = IF client = "attached" /\ ClientDetaches(detached)
                 THEN "present" ELSE client
    /\ pc' = "hd_delete_children"
    /\ UNCHANGED <<dev_state, uhid, hidbus, fault, heap, bind, client_ever, call, pump_vars>>

\* hidbus_detach without its device_delete_children(dev)
hidbus_detach_delete_children_none(detached) ==
    /\ fault = "none"
    /\ pc = "hd_delete_children"
    /\ pc' = "hd_intr_unsetup"
    /\ UNCHANGED <<dev_state, uhid, hidbus, client, fault, heap, bind,
                   client_ever, call, pump_vars>>

\* hidbus_detach: device_delete_children(dev), its result not looked at; a
\* child that is still attached is detached first and is kept if that fails
hidbus_detach_delete_children(detached) ==
    /\ fault = "none"
    /\ pc = "hd_delete_children"
    /\ client' = IF client = "attached" /\ ~ClientDetaches(detached)
                 THEN client ELSE "none"
    /\ pc' = "hd_intr_unsetup"
    /\ UNCHANGED <<dev_state, uhid, hidbus, fault, heap, bind, client_ever, call, pump_vars>>

\* hidbus_detach: HID_INTR_UNSETUP -> usbhid_intr_unsetup ->
\* usbd_transfer_unsetup, which stops the transfer under its mutex ...
hidbus_detach_intr_unsetup ==
    /\ fault = "none"
    /\ pc = "hd_intr_unsetup"
    /\ uhid.sc_xfer = "null" \/ hidbus.lock = "free"
    /\ xfer' = usbd_transfer_stop(xfer)
    /\ heap' = [heap EXCEPT !.intr_unsetups = @ + 1]
    /\ pc' = IF uhid.sc_xfer = "null" THEN "hd_mtx_destroy" ELSE "hd_drain"
    /\ UNCHANGED <<dev_state, uhid, hidbus, client, fault, completions,
                   delivered, truncated, stalls, stopped, bind, client_ever, call>>

\* ... and waits until no callback is pending, then frees the transfer and
\* clears sc_xfer[]
usbd_transfer_drain ==
    /\ fault = "none"
    /\ pc = "hd_drain"
    /\ hidbus.lock = "free"
    /\ xfer.state = "idle"
    /\ uhid' = [uhid EXCEPT !.sc_xfer = "null"]
    /\ xfer' = [xfer0 EXCEPT !.framelen = xfer.framelen]
    /\ pc' = "hd_mtx_destroy"
    /\ UNCHANGED <<dev_state, hidbus, client, fault, completions,
                   delivered, truncated, stalls, heap, stopped, bind, client_ever, call>>

\* hidbus_detach: mtx_destroy(&sc->lock); return (0)
hidbus_detach_mtx_destroy ==
    /\ fault = "none"
    /\ pc = "hd_mtx_destroy"
    /\ IF hidbus.lock = "client"
       THEN /\ fault' = "mtx_destroy_owned"
            /\ UNCHANGED <<hidbus, dev_state, pc, heap>>
       ELSE /\ fault' = fault
            /\ hidbus' = [hidbus EXCEPT !.lock = "destroyed"]
            /\ heap' = [heap EXCEPT !.mtx_destroys = @ + 1]
            /\ dev_state' = [dev_state EXCEPT !.hidbus = "present"]
            /\ pc' = "ud_delete_child"
    /\ UNCHANGED <<uhid, client, bind, client_ever, call, pump_vars>>

\* uhid_detach: if (sc->sc_child) device_delete_child(dev, sc->sc_child),
\* its result not looked at; sc_child is not cleared
uhid_detach_delete_child(detached) ==
    /\ fault = "none"
    /\ pc = "ud_delete_child"
    /\ IF uhid.sc_child = "null" \/ (client = "attached" /\ ~ClientDetaches(detached))
       THEN UNCHANGED <<dev_state, client>>
       ELSE /\ dev_state' = [dev_state EXCEPT !.hidbus = "none"]
            /\ client' = "none"
    /\ pc' = "ud_free_desc"
    /\ UNCHANGED <<uhid, hidbus, fault, heap, bind, client_ever, call, pump_vars>>

\* FreesDescriptor without the test of UHID_FLAG_STATIC_DESC
FreesDescriptor_ignores_flag(ptr, static_flag) == ptr # "null"

\* the test uhid_detach makes before it frees the report descriptor
FreesDescriptor(ptr, static_flag) == ptr # "null" /\ ~static_flag

\* uhid_detach: free(sc->sc_repdesc_ptr, M_USBDEV) unless it is static
uhid_detach_free_desc ==
    /\ fault = "none"
    /\ pc = "ud_free_desc"
    /\ heap' = IF FreesDescriptor(uhid.sc_repdesc_ptr, uhid.UHID_FLAG_STATIC_DESC)
               THEN IF uhid.sc_repdesc_ptr = "static"
                    THEN [heap EXCEPT !.static_frees = @ + 1]
                    ELSE [heap EXCEPT !.desc_frees = @ + 1]
               ELSE heap
    /\ pc' = "ud_free_ibuf"
    /\ UNCHANGED <<dev_state, uhid, hidbus, client, fault, bind, client_ever, call, pump_vars>>

\* uhid_detach returning without free(sc->sc_ibuf, M_USBDEV)
uhid_detach_free_ibuf_skipped ==
    /\ fault = "none"
    /\ pc = "ud_free_ibuf"
    /\ pc' = IF dev_state.usbhid = "attached" THEN "detached" ELSE "attach_failed"
    /\ dev_state' = [dev_state EXCEPT !.usbhid = "none"]
    /\ UNCHANGED <<uhid, hidbus, client, fault, heap, bind, client_ever, call,
                   pump_vars>>

\* uhid_detach: free(sc->sc_ibuf, M_USBDEV); return (0); on the error path
\* of uhid_attach, return (ENOMEM) follows
uhid_detach_free_ibuf ==
    /\ fault = "none"
    /\ pc = "ud_free_ibuf"
    /\ heap' = IF uhid.sc_ibuf # "null"
               THEN [heap EXCEPT !.ibuf_frees = @ + 1] ELSE heap
    /\ pc' = IF dev_state.usbhid = "attached" THEN "detached" ELSE "attach_failed"
    /\ dev_state' = [dev_state EXCEPT !.usbhid = "none"]
    /\ UNCHANGED <<uhid, hidbus, client, fault, bind, client_ever, call, pump_vars>>

\* the device is probed and attached again, on a softc that newbus zeroed
reattach ==
    /\ fault = "none"
    /\ pc \in {"detached", "attach_failed"}
    /\ client = "none"
    /\ dev_state.hidbus = "none"
    /\ pc' = "ua_desc"
    /\ dev_state' = [usbhid |-> "attaching", hidbus |-> "none"]
    /\ uhid' = uhid_softc0
    /\ hidbus' = hidbus_softc0
    /\ xfer' = xfer0
    /\ completions' = 0
    /\ delivered' = <<>>
    /\ truncated' = FALSE
    /\ stalls' = 0
    /\ heap' = heap0
    /\ stopped' = FALSE
    /\ bind' = bind0
    /\ client_ever' = FALSE
    /\ call' = call0
    /\ UNCHANGED <<client, fault>>

Detach ==
    \/ device_detach
    \/ uhid_detach_generic_detach
    \/ \E detached \in BOOLEAN : hidbus_detach_generic_detach(detached)
    \/ \E detached \in BOOLEAN : hidbus_detach_delete_children(detached)
    \/ hidbus_detach_intr_unsetup
    \/ usbd_transfer_drain
    \/ hidbus_detach_mtx_destroy
    \/ \E detached \in BOOLEAN : uhid_detach_delete_child(detached)
    \/ uhid_detach_free_desc
    \/ uhid_detach_free_ibuf
    \/ reattach

Client ==
    \/ client_lock
    \/ client_unlock
    \/ \E intr \in Handlers : hid_set_intr(intr)
    \/ hid_start
    \/ hid_stop

Pump ==
    \/ \E actlen \in ActLens : hw_transferred(actlen)
    \/ hw_error
    \/ uhid_intr_read_callback

Next == Attach \/ Client \/ Pump \/ Detach

Spec == Init /\ [][Next]_vars

\* the device attaches and its client calls the synchronous HID interface
NextOps == Attach \/ HidInterface

SpecOps == Init /\ [][NextOps]_vars


(* ------------------------------------------------------------------ *)
(* The claims                                                          *)
(* ------------------------------------------------------------------ *)

\* the step calls the handler the transfer was set up with (hidbus_intr):
\* a report reaches the client's handler, or the call through sc->intr faults
HandlerInvoked ==
    \/ Len(delivered') > Len(delivered)
    \/ fault = "none" /\ fault' = "null_intr_call"

\* the callback runs for a completion in the given state
CallbackIn(state) == uhid_intr_read_callback /\ USB_GET_STATE = state

Min(a, b) == IF a <= b THEN a ELSE b

\* C1: once hid_stop has returned, and until a later hid_start is issued, no
\* step invokes the handler.
C1_NoDeliveryAfterStop ==
    [][stopped => ~HandlerInvoked]_vars

\* C1 witness: hid_stop returned while the completion of a full-size frame
\* was still queued for a bound handler; the completion is now a cancelled one
C1_Witness ==
    /\ stopped
    /\ hidbus.intr # "null"
    /\ uhid.sc_isize = 8
    /\ xfer.state = "cb_done"
    /\ xfer.error = "USB_ERR_CANCELLED"
    /\ xfer.actlen = 8

\* C2: a USB_ST_TRANSFERRED completion of actual length L invokes the handler
\* if and only if L >= sc_isize, or L > 0 and sc_iid # 0.
C2_DeliveredIff ==
    [][CallbackIn("USB_ST_TRANSFERRED") =>
        (HandlerInvoked <=>
            (xfer.actlen >= uhid.sc_isize
             \/ (xfer.actlen > 0 /\ uhid.sc_iid # 0)))]_vars

\* C2 witness: with input size 8 and a nonzero report id, a 3-byte frame was
\* delivered after an empty frame was not
C2_Witness ==
    /\ uhid.sc_isize = 8
    /\ uhid.sc_iid # 0
    /\ completions = 2
    /\ stalls = 0
    /\ Len(delivered) = 1
    /\ delivered[1].seq = 2
    /\ delivered[1].len = 3

\* C3: every delivery passes min(L, sc_isize) as its length and copies that
\* many bytes, never more than sc_isize, out of the transfer frame.
C3_Truncation ==
    [][Len(delivered') > Len(delivered) =>
        LET d == delivered'[Len(delivered')] IN
          /\ truncated' = (truncated \/ xfer.actlen > uhid.sc_isize)
          /\ d.len = Min(xfer.actlen, uhid.sc_isize)
          /\ d.copied = d.len
          /\ d.copied <= uhid.sc_isize]_vars

\* C3 witness: with input size 8 a longer frame was delivered, as 8 bytes
C3_Witness ==
    /\ uhid.sc_isize = 8
    /\ truncated
    /\ Len(delivered) = 1
    /\ delivered[1].len = 8
    /\ delivered[1].copied = 8

\* C4: with a handler bound, every accepted frame is delivered exactly once,
\* as the completion it came with, and the deliveries are in completion order.
C4_ExactlyOnceInOrder ==
    /\ [](\A i, j \in 1..Len(delivered) :
            i < j => delivered[i].seq < delivered[j].seq)
    /\ [](\A i \in 1..Len(delivered) : delivered[i].seq \in 1..completions)
    /\ [][(/\ CallbackIn("USB_ST_TRANSFERRED")
           /\ hidbus.intr # "null"
           /\ (xfer.actlen >= uhid.sc_isize
               \/ (xfer.actlen > 0 /\ uhid.sc_iid # 0)))
          => (/\ Len(delivered') = Len(delivered) + 1
              /\ SubSeq(delivered', 1, Len(delivered)) = delivered
              /\ delivered'[Len(delivered')].seq = completions)]_vars

\* C4 witness: input size 8, report id 0, three 8-byte frames: three
\* deliveries of length 8, the first, second and third completion
C4_Witness ==
    /\ uhid.sc_isize = 8
    /\ uhid.sc_iid = 0
    /\ completions = 3
    /\ Len(delivered) = 3
    /\ ~truncated
    /\ \A i \in 1..3 : delivered[i].seq = i /\ delivered[i].len = 8

\* C5: a completion with an error other than USB_ERR_CANCELLED invokes no
\* handler, clears the stall once and resubmits with frame length sc_isize;
\* a full-size frame transferred after a stall is delivered once.
C5_FaultRecovery ==
    /\ [][(CallbackIn("USB_ST_ERROR") /\ xfer.error # "USB_ERR_CANCELLED")
          => (/\ ~HandlerInvoked
              /\ delivered' = delivered
              /\ stalls' = stalls + 1
              /\ xfer'.state = "inflight"
              /\ xfer'.framelen = uhid.sc_isize)]_vars
    /\ [][(/\ CallbackIn("USB_ST_TRANSFERRED")
           /\ stalls >= 1
           /\ hidbus.intr # "null"
           /\ xfer.actlen >= uhid.sc_isize)
          => (/\ Len(delivered') = Len(delivered) + 1
              /\ xfer'.state = "inflight")]_vars

\* C5 witness: one stall, then one 8-byte frame: exactly one delivery
C5_Witness ==
    /\ uhid.sc_isize = 8
    /\ stalls = 1
    /\ completions = 2
    /\ Len(delivered) = 1
    /\ delivered[1].seq = 2
    /\ delivered[1].len = 8

\* C6: a completion with USB_ERR_CANCELLED does not resubmit, clears no stall
\* and invokes no handler; the transfer is idle afterwards unless it was
\* started again meanwhile, and an idle transfer stays idle until hid_start.
C6_CancelStops ==
    /\ [][(CallbackIn("USB_ST_ERROR") /\ xfer.error = "USB_ERR_CANCELLED")
          => (/\ ~HandlerInvoked
              /\ delivered' = delivered
              /\ stalls' = stalls
              /\ xfer'.state # "inflight"
              /\ (~xfer.started => xfer'.state = "idle"))]_vars
    /\ [][(xfer.state = "idle" /\ xfer'.state # "idle")
          => (hid_start /\ ~xfer.started /\ xfer'.started)]_vars

\* C6 witness: a transfer that had been submitted is idle and not started
\* after hid_stop: its cancelled completion has been handled
C6_Witness ==
    /\ stopped
    /\ uhid.sc_xfer = "setup"
    /\ xfer.framelen = 8
    /\ xfer.state = "idle"
    /\ ~xfer.started
    /\ pc = "attached"

C8_UnboundIsNoOp ==
    [][(CallbackIn("USB_ST_TRANSFERRED") /\ hidbus.intr = "null")
       => (fault' = "none" /\ delivered' = delivered
           /\ xfer'.state = "inflight")]_vars

\* C9 as stated: the lock is never destroyed while the client is still
\* attached or while the read transfer is still set up or armed.
C9_DetachOrder ==
    hidbus.lock = "destroyed" =>
        /\ client # "attached"
        /\ uhid.sc_xfer = "null"
        /\ xfer.state = "idle"

\* C10: a static report descriptor is never passed to free; a descriptor
\* from usbd_req_get_hid_desc is passed to free at most once, and exactly
\* once by the time uhid_detach has returned.
C10_DescriptorOwnership ==
    /\ heap.static_frees = 0
    /\ heap.desc_frees <= heap.desc_allocs
    /\ (pc \in {"detached", "attach_failed"} => heap.desc_frees = heap.desc_allocs)
    /\ (uhid.sc_repdesc_ptr = "static" <=> uhid.UHID_FLAG_STATIC_DESC)

\* C10 witness: a device detached whose descriptor had been fetched
C10_Witness ==
    /\ pc = "detached"
    /\ uhid.sc_repdesc_ptr = "malloc"
    /\ heap.desc_allocs = 1
    /\ heap.desc_frees = 1

\* the steps of uhid_detach
UhidDetachSteps ==
    {"ud_generic_detach", "ud_delete_child", "ud_free_desc", "ud_free_ibuf"}

\* uhid_detach runs or has run on an instance whose attach stopped early:
\* from the detach label of uhid_attach (no descriptor, no hidbus child), or
\* after a uhid_attach whose hidbus child did not attach
AttachStoppedEarly ==
    \/ dev_state.usbhid = "attaching" /\ pc \in UhidDetachSteps
    \/ pc = "attach_failed"
    \/ /\ uhid.sc_child # "null"
       /\ hidbus.lock = "uninit"
       /\ pc \in UhidDetachSteps \cup {"detached"}

\* C11: uhid_detach of an instance whose attach stopped early does not fault,
\* frees nothing that was not allocated and leaves the hidbus lock and the
\* transfer alone, and when it has returned the fetched descriptor and the
\* input buffer are freed once each and the hidbus child is deleted.
C11_PartialDetach ==
    AttachStoppedEarly =>
        /\ fault = "none"
        /\ heap.static_frees = 0
        /\ heap.desc_frees <= heap.desc_allocs
        /\ heap.ibuf_frees <= (IF uhid.sc_ibuf = "null" THEN 0 ELSE 1)
        /\ heap.mtx_destroys = 0
        /\ heap.intr_unsetups = 0
        /\ hidbus.lock = "uninit"
        /\ xfer = xfer0
        /\ (pc \in {"attach_failed", "detached"} =>
              /\ heap.desc_frees = heap.desc_allocs
              /\ heap.ibuf_frees = (IF uhid.sc_ibuf = "null" THEN 0 ELSE 1)
              /\ dev_state.hidbus = "none"
              /\ client = "none")

\* C11 witness: the hidbus child could not be added after the descriptor was
\* fetched and the buffer allocated: both are freed, the attach has failed
C11_Witness ==
    /\ pc = "attach_failed"
    /\ uhid.sc_child = "null"
    /\ uhid.sc_ibuf = "malloc"
    /\ heap.desc_allocs = 1
    /\ heap.desc_frees = 1
    /\ heap.ibuf_frees = 1

\* C12 as stated: an attach during which the descriptor could not be fetched
\* or the interrupt transfer could not be set up leaves no Bus Node attached.
C12_ResourceFailureFailsAttach ==
    /\ (pc = "attach_failed" => dev_state.hidbus = "none")
    /\ ((pc = "attached" /\ dev_state.hidbus = "attached")
            => uhid.sc_xfer = "setup")

\* C13: a synchronous Bus Node operation makes one call, of the parent's
\* method of its own name, with the arguments it was given, returns what that
\* call returned, and changes nothing of the Bus Node or the transport.
C13_Passthrough ==
    /\ [](call.op # "none" =>
            /\ Len(call.transport) = 1
            /\ call.transport[1].method = call.op
            /\ call.transport[1].args = call.args
            /\ call.ret = call.transport[1].ret)
    /\ [][call' # call => UNCHANGED bus_vars]_vars

\* C13 witness: hid_set_idle(500, 2) on a device that stalls the request:
\* usbhid_set_idle got (500, 2), asked the device for 125 units and
\* returned ENXIO, and so did hid_set_idle
C13_Witness ==
    /\ call.op = "hid_set_idle"
    /\ call.args = <<500, 2>>
    /\ call.usb[1].args = <<125, 2>>
    /\ call.transport[1].hw = "USB_ERR_STALLED"
    /\ call.ret = "ENXIO"

\* C14: usbhid_get_input_report and usbhid_set_output_report return ENOTSUP
\* and make no USB request; usbhid_get_report, usbhid_set_report,
\* usbhid_set_idle and usbhid_set_protocol return 0 when their request
\* succeeds and ENXIO when it fails, never ENOTSUP.
C14_UnsupportedIsDistinct ==
    /\ (call.op \in {"hid_get_input_report", "hid_set_output_report"} =>
            /\ call.transport[1].ret = "ENOTSUP"
            /\ call.usb = <<>>)
    /\ (call.op \in {"hid_get_report", "hid_set_report", "hid_set_idle",
                     "hid_set_protocol"} =>
            /\ Len(call.usb) = 1
            /\ (call.transport[1].hw = "USB_ERR_NORMAL_COMPLETION"
                    => call.transport[1].ret = "0")
            /\ (call.transport[1].hw # "USB_ERR_NORMAL_COMPLETION"
                    => call.transport[1].ret = "ENXIO")
            /\ call.transport[1].ret # "ENOTSUP")

\* C14 witness: a usbhid_get_report whose request timed out returned ENXIO
C14_Witness ==
    /\ call.op = "hid_get_report"
    /\ call.transport[1].hw = "USB_ERR_TIMEOUT"
    /\ call.transport[1].ret = "ENXIO"

\* C15: hid_start and hid_stop leave the lock as they found it, and a call
\* made without the lock held ends in the mtx_assert of usbhid_intr_start or
\* usbhid_intr_stop with the transfer untouched; the asserted mutex is the
\* hidbus lock, and the transfer is only ever started with it held.
C15_PumpControlNeedsLock ==
    /\ [][((hid_start \/ hid_stop) /\ hidbus.lock # "client")
          => (fault' = "mtx_assert" /\ xfer' = xfer /\ stopped' = stopped)]_vars
    /\ [][(hid_start \/ hid_stop) => hidbus' = hidbus]_vars
    /\ [][(~xfer.started /\ xfer'.started) => hidbus.lock = "client"]_vars
    /\ [](uhid.sc_xfer = "setup" => uhid.sc_intr_mtx = "hidbus_lock")

\* C15 witness: a call without the lock hit the assertion while a transfer
\* was in flight, which it still is
C15_Witness ==
    /\ fault = "mtx_assert"
    /\ hidbus.lock = "free"
    /\ xfer.started
    /\ xfer.state = "inflight"

\* C16: a step that invokes the handler is a run of the completion callback
\* of a transfer set up on the hidbus lock, taken at a moment when no client
\* section holds that lock and released when the callback has returned.
C16_HandlerUnderLock ==
    [][HandlerInvoked =>
        /\ uhid_intr_read_callback
        /\ uhid.sc_intr_mtx = "hidbus_lock"
        /\ hidbus.lock = "free"
        /\ hidbus'.lock = "free"]_vars

\* C16 witness: after one delivery a second completion is held back while the
\* client is inside a section of the lock
C16_Witness ==
    /\ Len(delivered) = 1
    /\ hidbus.lock = "client"
    /\ xfer.state = "cb_done"
    /\ xfer.error = "none"
    /\ completions = 2

C18_StartIdempotent ==
    /\ [](xfer.outstanding \in {0, 1})
    /\ [](xfer.outstanding = 1 <=> xfer.state = "inflight")
    /\ [][(hid_start /\ xfer.started) => xfer' = xfer]_vars
    /\ [][(hid_start /\ xfer.state # "idle")
          => (/\ xfer'.state = xfer.state
              /\ xfer'.outstanding = xfer.outstanding)]_vars

\* C18 witness: the pump is armed, re-armed by its callback after two
\* completions, and the client holds the lock for another hid_start
C18_Witness ==
    /\ xfer.started
    /\ xfer.state = "inflight"
    /\ xfer.outstanding = 1
    /\ completions = 2
    /\ hidbus.lock = "client"
    /\ ~stopped

\* the steps of uhid_detach that follow the return of hidbus_detach
AfterHidbusDetach == {"ud_delete_child", "ud_free_desc", "ud_free_ibuf", "detached"}

\* C19: on a Bus Node whose client never attached nothing faults, no handler
\* is bound or invoked and nothing is submitted; hidbus_detach unsets the
\* interrupt once and destroys the lock once, and when it has returned the
\* child is deleted and the transfer gone.
C19_DetachWithoutClient ==
    (~client_ever /\ heap.mtx_inits = 1) =>
        /\ fault = "none"
        /\ delivered = <<>>
        /\ bind.intr = "null"
        /\ hidbus.intr = "null"
        /\ xfer.outstanding = 0
        /\ xfer.framelen = 0
        /\ heap.intr_unsetups <= 1
        /\ heap.mtx_destroys <= heap.intr_unsetups
        /\ (pc \in AfterHidbusDetach =>
              /\ heap.intr_unsetups = 1
              /\ heap.mtx_destroys = 1
              /\ hidbus.lock = "destroyed"
              /\ uhid.sc_xfer = "null"
              /\ client = "none")
        /\ (pc = "detached" => dev_state.hidbus = "none")

\* C19 witness: a device detached whose client had failed to attach
C19_Witness ==
    /\ pc = "detached"
    /\ ~client_ever
    /\ heap.mtx_inits = 1
    /\ heap.mtx_destroys = 1
    /\ heap.intr_unsetups = 1
    /\ heap.intr_setups = 1

\* C20: the handler runs while no submission of the read transfer is
\* outstanding, and the callback that invoked it resubmits the transfer
\* before it returns.
C20_HandlerBeforeRearm ==
    /\ [](\A i \in 1..Len(delivered) : delivered[i].outstanding = 0)
    /\ [][Len(delivered') > Len(delivered)
          => (/\ xfer.state = "cb_done"
              /\ xfer.outstanding = 0
              /\ xfer'.state = "inflight"
              /\ xfer'.outstanding = 1)]_vars

\* C20 witness: two frames delivered, each with nothing outstanding, and the
\* transfer submitted again for the third
C20_Witness ==
    /\ Len(delivered) = 2
    /\ delivered[1].outstanding = 0
    /\ delivered[2].outstanding = 0
    /\ completions = 2
    /\ xfer.state = "inflight"
    /\ xfer.outstanding = 1

\* the pump is in its cycle: the callback is queued for a start or for a
\* completion that is not a cancellation, or the transfer is submitted
Armed ==
    \/ xfer.state \in {"cb_setup", "inflight"}
    \/ xfer.state = "cb_done" /\ xfer.error # "USB_ERR_CANCELLED"

\* C21: a run of the callback for a completion that is not a cancellation,
\* once it has returned, leaves the transfer submitted with frame length
\* sc_isize, whether the frame was delivered, discarded or a fault; and the
\* pump leaves its cycle only by hid_stop or the unsetup of detach, which
\* cancel the transfer.
C21_AlwaysRearms ==
    /\ [][(/\ uhid_intr_read_callback
           /\ xfer.error # "USB_ERR_CANCELLED"
           /\ fault' = "none")
          => (/\ xfer'.state = "inflight"
              /\ xfer'.outstanding = 1
              /\ xfer'.framelen = uhid.sc_isize)]_vars
    /\ [][(Armed /\ ~Armed')
          => (/\ hid_stop \/ hidbus_detach_intr_unsetup
              /\ ~xfer'.started
              /\ xfer'.state \in {"idle", "cb_done"})]_vars

\* C21 witness: a 3-byte frame was discarded (input size 8, no report id,
\* a handler bound) and the transfer is submitted again with length 8
C21_Witness ==
    /\ uhid.sc_isize = 8
    /\ uhid.sc_iid = 0
    /\ hidbus.intr # "null"
    /\ completions = 1
    /\ stalls = 0
    /\ delivered = <<>>
    /\ xfer.state = "inflight"
    /\ xfer.framelen = 8

\* C22: the error branch keeps no count: whatever the number of stalls
\* cleared so far, a fault that is not a cancellation clears one more and
\* resubmits; while every completion was such a fault nothing is delivered,
\* and the transfer becomes idle only where it is not started any more, by
\* hid_stop, by the unsetup of detach or by a cancelled completion.
C22_UnboundedRecovery ==
    /\ [][(CallbackIn("USB_ST_ERROR") /\ xfer.error # "USB_ERR_CANCELLED")
          => (/\ stalls' = stalls + 1
              /\ xfer'.state = "inflight")]_vars
    /\ []((stalls = completions) => delivered = <<>>)
    /\ []((stalls = completions /\ xfer.started /\ fault = "none")
            => xfer.state # "idle")
    /\ [][(xfer.state # "idle" /\ xfer'.state = "idle")
          => (/\ ~xfer'.started
              /\ \/ hid_stop
                 \/ hidbus_detach_intr_unsetup
                 \/ CallbackIn("USB_ST_ERROR")
                      /\ xfer.error = "USB_ERR_CANCELLED")]_vars

\* C22 witness: every completion the device produced was a fault, each was
\* recovered from, nothing was delivered and the transfer is submitted again
C22_Witness ==
    /\ stalls = MaxCompletions
    /\ completions = MaxCompletions
    /\ hidbus.intr # "null"
    /\ delivered = <<>>
    /\ xfer.state = "inflight"

\* C23: once uhid_attach has allocated sc_ibuf, sc_isize is at most
\* UHID_BSIZE and is the size sc_ibuf was allocated with; the step that
\* computes the sizes never fails the attach; and every copy the callback
\* made into sc_ibuf is no longer than that allocation.
C23_BufferBound ==
    /\ [](uhid.sc_ibuf # "null" =>
            /\ uhid.sc_isize <= UHID_BSIZE
            /\ heap.ibuf_size = uhid.sc_isize)
    /\ [](\A i \in 1..Len(delivered) :
            /\ delivered[i].copied <= heap.ibuf_size
            /\ delivered[i].copied <= UHID_BSIZE)
    /\ [][pc = "ua_sizes" => pc' \in {"ua_sizes", "ua_add_child"}]_vars

\* C23 witness: a descriptor of more than UHID_BSIZE bytes of input: the
\* device attached with sc_isize and sc_ibuf of UHID_BSIZE bytes and a
\* 9-byte frame was copied and delivered
C23_Witness ==
    /\ pc = "attached"
    /\ uhid.sc_isize = UHID_BSIZE
    /\ heap.ibuf_size = UHID_BSIZE
    /\ Len(delivered) = 1
    /\ delivered[1].copied = 9

\* C24 as stated: when uhid_detach frees the report descriptor and sc_ibuf
\* the hidbus child is detached and deleted, its client with it, and the
\* read transfer is neither set up nor has a callback to run.
C24_FreeAfterChildGone ==
    (pc \in {"ud_free_ibuf", "detached", "attach_failed"}) =>
        /\ uhid.sc_xfer = "null"
        /\ xfer.state = "idle"
        /\ dev_state.hidbus = "none"
        /\ client = "none"

\* C25: the lock is initialised and the interrupt set up together, at most
\* once and only after the child was added; hidbus_attach returns 0 whether
\* or not the child attaches; mtx_destroy is only called on the initialised
\* lock, and when hidbus_detach has returned the interrupt was unset once
\* and the lock destroyed once.
C25_SetupBalanced ==
    /\ [](/\ heap.mtx_inits = heap.intr_setups
          /\ heap.mtx_inits <= 1
          /\ (heap.mtx_inits = 0 <=> hidbus.lock = "uninit")
          /\ (heap.mtx_inits = 1 => client # "none" \/ pc \notin {"ha_intr_setup", "ha_generic_attach", "attached"})
          /\ heap.mtx_destroys <= heap.intr_unsetups
          /\ heap.intr_unsetups <= heap.intr_setups
          /\ (heap.mtx_destroys = 1 <=> hidbus.lock = "destroyed")
          /\ ((dev_state.hidbus = "attached") => heap.mtx_inits = 1)
          /\ ((heap.mtx_inits = 1 /\ pc \in AfterHidbusDetach)
                => (heap.intr_unsetups = 1 /\ heap.mtx_destroys = 1)))
    /\ [][(pc = "ha_add_child" /\ pc' = "attached")
          => (/\ hidbus'.lock = "uninit"
              /\ heap'.intr_setups = 0
              /\ dev_state'.hidbus # "attached")]_vars
    /\ [][(pc = "ha_generic_attach" /\ pc' # pc)
          => (pc' = "attached" /\ dev_state'.hidbus = "attached")]_vars
    /\ [][heap'.mtx_destroys > heap.mtx_destroys
          => (/\ hidbus.lock = "free"
              /\ heap.intr_unsetups = 1
              /\ heap.mtx_destroys = 0)]_vars

\* C25 witness: a device detached whose client had attached: one mtx_init,
\* one HID_INTR_SETUP, one HID_INTR_UNSETUP, one mtx_destroy
C25_Witness ==
    /\ pc = "detached"
    /\ client_ever
    /\ heap.mtx_inits = 1
    /\ heap.intr_setups = 1
    /\ heap.intr_unsetups = 1
    /\ heap.mtx_destroys = 1

=============================================================================
